---- MODULE Spec2Model ----
(***************************************************************************)
(* A model of errcheck (src/errcheck/errcheck.go): the detection visitor   *)
(* (visitor.Visit and the helpers it calls) and the concurrent scan        *)
(* orchestration of Checker.CheckPackages with its sort + dedup step.      *)
(*                                                                         *)
(* Strings that the code only compares for equality or concatenates are    *)
(* TLA+ strings.  Strings that the code orders with < (file names, line    *)
(* texts) or trims are sequences of byte values.  Package paths are        *)
(* sequences of their "/"-separated segments.                              *)
(***************************************************************************)
EXTENDS Integers, Sequences, FiniteSets, TLC

(***************************************************************************)
(* Strings as byte sequences                                               *)
(***************************************************************************)

\* strings.TrimSpace: drop leading and trailing white space (space, tab).
IsSpace(c) == c \in {9, 32}

RECURSIVE TrimLeft(_)
TrimLeft(s) ==
  IF s # <<>> /\ IsSpace(Head(s)) THEN TrimLeft(Tail(s)) ELSE s

RECURSIVE TrimRight(_)
TrimRight(s) ==
  IF s # <<>> /\ IsSpace(s[Len(s)]) THEN TrimRight(SubSeq(s, 1, Len(s) - 1)) ELSE s

TrimSpace(s) == TrimRight(TrimLeft(s))

\* Go's < on strings: byte-wise lexicographic order.
RECURSIVE StrLess(_, _)
StrLess(a, b) ==
  IF b = <<>> THEN FALSE
  ELSE IF a = <<>> THEN TRUE
  ELSE IF Head(a) # Head(b) THEN Head(a) < Head(b)
  ELSE StrLess(Tail(a), Tail(b))

(***************************************************************************)
(* The source tree on disk                                                 *)
(***************************************************************************)

FileA == <<97>>
FileB == <<98>>
Filenames == {FileA, FileB}

\* The lines of each file, as bufio.Scanner yields them (untrimmed).
Disk ==
  [f \in Filenames |->
     IF f = FileA THEN << <<9, 102, 40, 41>>, <<32, 103, 40, 41, 32>> >>
     ELSE << <<9, 104, 40, 41>> >>]

\* readfile: the lines of the file, nil when it cannot be opened.
readfile(filename) ==
  IF filename \in DOMAIN Disk THEN Disk[filename] ELSE <<>>

\* token.Position
Position(file, line, col) == [Filename |-> file, Line |-> line, Column |-> col]

(***************************************************************************)
(* Package paths                                                           *)
(***************************************************************************)

\* Index of the last "/vendor/" in the path: a "vendor" segment that is
\* neither the first nor the last segment; 0 when there is none.
LastVendorIndex(path) ==
  LET idx == {k \in 2..(Len(path) - 1) : path[k] = "vendor"}
  IN  IF idx = {} THEN 0 ELSE CHOOSE k \in idx : \A m \in idx : m <= k

\* nonVendoredPkgPath: <<path without the vendor prefix, was it vendored>>.
nonVendoredPkgPath(pkgPath) ==
  LET k == LastVendorIndex(pkgPath)
  IN  IF k = 0 THEN <<pkgPath, FALSE>>
      ELSE <<SubSeq(pkgPath, k + 1, Len(pkgPath)), TRUE>>

\* dotStar.MatchString: the pattern ".*" matches every identifier.
dotStarMatch(name) == TRUE

(***************************************************************************)
(* What the frontend (go/ast, go/types) tells the visitor about a call     *)
(*                                                                         *)
(* A call expression is a record:                                          *)
(*   Fun        dynamic type of call.Fun: "Ident", "SelectorExpr", "Other" *)
(*   Name       the identifier (id.Name, sel.Sel.Name, fn.Name())          *)
(*   Obj        what TypesInfo binds the identifier to: "Func", "Builtin", *)
(*              "Var" or "None"                                            *)
(*   HasPkg     obj.Pkg() # nil,  PkgPath  obj.Pkg().Path()                *)
(*   FullName   fn.FullName()                                              *)
(*   Selection  TypesInfo.Selections[sel]: "none" when absent, "concrete"  *)
(*              or "iface" by the kind of receiver the method is bound to  *)
(*   Chain      the interface types on the embedding chain of an "iface"   *)
(*              selection, as rendered by t.String()                       *)
(*   Args       the arguments: Sel is "Stderr"/"Stdout" for the literal    *)
(*              os.Stderr/os.Stdout, Type is TypeOf(expr).String()         *)
(*   Type       TypesInfo.Types[call].Type                                 *)
(*   Lparen     position of the opening parenthesis                        *)
(***************************************************************************)

\* A types.Type: Kind is its dynamic Go type, Implements is the answer of
\* types.Implements(t, errorType), Elems the slots of a *types.Tuple.
Type(kind, impl) == [Kind |-> kind, Implements |-> impl, Elems |-> <<>>]
Tuple(elems) == [Kind |-> "Tuple", Implements |-> FALSE, Elems |-> elems]

TError == Type("Named", TRUE)
TInt == Type("Basic", FALSE)
TPtrErr == Type("Pointer", TRUE)
TIfaceLit == Type("Interface", TRUE)
TEmptyIface == Type("Interface", FALSE)

\* isErrorType
isErrorType(t) == t.Implements

\* errorsByArg: one flag per result, TRUE when that result is an error type.
errorsByArgDefaultsTrue(call) ==
  LET t == call.Type
  IN  IF t.Kind \in {"Named", "Pointer"} THEN <<isErrorType(t)>>
      ELSE IF t.Kind = "Tuple"
        THEN [k \in 1..Len(t.Elems) |->
                IF t.Elems[k].Kind \in {"Named", "Pointer"}
                  THEN isErrorType(t.Elems[k]) ELSE TRUE]
      ELSE <<TRUE>>

errorsByArg(call) ==
  LET t == call.Type
  IN  IF t.Kind \in {"Named", "Pointer"} THEN <<isErrorType(t)>>
      ELSE IF t.Kind = "Tuple"
        THEN [k \in 1..Len(t.Elems) |->
                IF t.Elems[k].Kind \in {"Named", "Pointer"}
                  THEN isErrorType(t.Elems[k]) ELSE FALSE]
      ELSE <<FALSE>>

\* isRecover: a call of the built-in recover through a bare identifier.
isRecover(call) ==
  call.Fun = "Ident" /\ call.Obj = "Builtin" /\ call.Name = "recover"

\* callReturnsError
callReturnsError(call) ==
  \/ isRecover(call)
  \/ \E k \in 1..Len(errorsByArg(call)) : errorsByArg(call)[k]

\* selectorAndFunc: its final return value.
selectorAndFunc(call) == call.Fun = "SelectorExpr" /\ call.Obj = "Func"

\* fullName
fullName(call) == IF selectorAndFunc(call) THEN call.FullName ELSE ""

\* walkThroughEmbeddedInterfaces: <<interface types walked, ok>>; ok only
\* when the method is bound through an interface.
walkThroughEmbeddedInterfaces(call) ==
  IF call.Selection = "iface" THEN <<call.Chain, TRUE>> ELSE <<<<>>, FALSE>>

\* namesForExcludeCheck
namesForExcludeCheck(call) ==
  IF ~selectorAndFunc(call) THEN <<>>
  ELSE IF fullName(call) = "" THEN <<>>
  ELSE IF call.Selection = "none" THEN <<fullName(call)>>
  ELSE LET w == walkThroughEmbeddedInterfaces(call)
       IN  IF ~w[2] THEN <<fullName(call)>>
           ELSE [k \in 1..Len(w[1]) |-> "(" \o w[1][k] \o ")." \o call.Name]

\* argName
argName(expr) ==
  IF expr.Sel \in {"Stderr", "Stdout"} THEN "os." \o expr.Sel ELSE expr.Type

Arg0(call) == IF Len(call.Args) > 0 THEN argName(call.Args[1]) ELSE ""

\* excludeCall
excludeCallNoArgSuffix(v, call) ==
  \E k \in 1..Len(namesForExcludeCheck(call)) :
     namesForExcludeCheck(call)[k] \in v.exclude

excludeCall(v, call) ==
  LET arg0 == Arg0(call)
      names == namesForExcludeCheck(call)
  IN  \E k \in 1..Len(names) :
         \/ names[k] \in v.exclude
         \/ arg0 # "" /\ (names[k] \o "(" \o arg0 \o ")") \in v.exclude

\* ignoreCall
ignoreCall(v, call) ==
  IF excludeCall(v, call) THEN TRUE
  ELSE IF call.Fun \notin {"Ident", "SelectorExpr"} THEN FALSE
  ELSE IF <<>> \in v.ignore /\ dotStarMatch(call.Name) THEN TRUE
  ELSE IF call.Obj # "None" /\ call.HasPkg
    THEN IF call.PkgPath \in v.ignore THEN dotStarMatch(call.Name)
         ELSE IF ~v.go111module
                 /\ nonVendoredPkgPath(call.PkgPath)[2]
                 /\ nonVendoredPkgPath(call.PkgPath)[1] \in v.ignore
           THEN dotStarMatch(call.Name)
         ELSE FALSE
  ELSE FALSE

\* The absent call of addErrorAtPosition(position, nil).
NoCall == [Fun |-> "nil"]

\* addErrorAtPosition: the UncheckedError it appends to v.errors.
addErrorAtPosition(pos, call) ==
  LET lines == readfile(pos.Filename)
      line == IF pos.Line - 1 < Len(lines)
                THEN TrimSpace(lines[pos.Line]) ELSE <<63, 63>>
      name == IF call # NoCall THEN fullName(call) ELSE ""
  IN  [Pos |-> pos, Line |-> line, FuncName |-> name]

(***************************************************************************)
(* visitor.Visit                                                           *)
(*                                                                         *)
(* A node is a record with Kind "ExprStmt" (X), "GoStmt" (Call),           *)
(* "DeferStmt" (Call), "AssignStmt" (Lhs, Rhs) or "Other".  An expression  *)
(* has Kind "CallExpr" (a call as above), "TypeAssertExpr" (HasType is     *)
(* assert.Type # nil, Pos its position) or "Other".  A left-hand side is   *)
(* [IsIdent, Name, NamePos].                                               *)
(***************************************************************************)

\* case *ast.ExprStmt, *ast.GoStmt, *ast.DeferStmt: the wrapped call.
VisitCall(v, call) ==
  IF ~ignoreCall(v, call) /\ callReturnsError(call)
    THEN <<addErrorAtPosition(call.Lparen, call)>>
    ELSE <<>>

\* case *ast.AssignStmt, one right-hand side that is a call: target k.
SingleCallTargetNoBlankToggle(v, stmt, k) ==
  LET call == stmt.Rhs[1]
      id == stmt.Lhs[k]
  IN  IF ignoreCall(v, call) THEN <<>>
      ELSE IF id.IsIdent /\ id.Name = "_"
              /\ (isRecover(call) \/ errorsByArg(call)[k])
        THEN <<addErrorAtPosition(id.NamePos, call)>>
      ELSE <<>>

SingleCallTarget(v, stmt, k) ==
  LET call == stmt.Rhs[1]
      id == stmt.Lhs[k]
  IN  IF ~v.blank THEN <<>>
      ELSE IF ignoreCall(v, call) THEN <<>>
      ELSE IF id.IsIdent /\ id.Name = "_"
              /\ (isRecover(call) \/ errorsByArg(call)[k])
        THEN <<addErrorAtPosition(id.NamePos, call)>>
      ELSE <<>>

\* case *ast.AssignStmt, one right-hand side that is a type assertion.
SingleAssert(v, stmt) ==
  LET assert == stmt.Rhs[1]
  IN  IF ~v.asserts THEN <<>>
      ELSE IF ~assert.HasType THEN <<>>
      ELSE IF Len(stmt.Lhs) < 2 THEN <<addErrorAtPosition(assert.Pos, NoCall)>>
      ELSE IF stmt.Lhs[2].IsIdent /\ v.blank /\ stmt.Lhs[2].Name = "_"
        THEN <<addErrorAtPosition(stmt.Lhs[2].NamePos, NoCall)>>
      ELSE <<>>

\* case *ast.AssignStmt, several right-hand sides: target k, a type assertion.
MultiAssertTargetUnconditional(v, stmt, k) ==
  IF ~stmt.Rhs[k].HasType THEN <<>>
  ELSE <<addErrorAtPosition(stmt.Lhs[k].NamePos, NoCall)>>

MultiAssertTarget(v, stmt, k) ==
  IF ~v.asserts THEN <<>>
  ELSE IF ~stmt.Rhs[k].HasType THEN <<>>
  ELSE <<addErrorAtPosition(stmt.Lhs[k].NamePos, NoCall)>>

\* case *ast.AssignStmt, several right-hand sides: target k.
MultiTarget(v, stmt, k) ==
  LET id == stmt.Lhs[k]
      rhs == stmt.Rhs[k]
  IN  IF ~id.IsIdent THEN <<>>
      ELSE IF rhs.Kind = "CallExpr"
        THEN IF ~v.blank THEN <<>>
             ELSE IF ignoreCall(v, rhs) THEN <<>>
             ELSE IF id.Name = "_" /\ callReturnsError(rhs)
               THEN <<addErrorAtPosition(id.NamePos, rhs)>>
             ELSE <<>>
      ELSE IF rhs.Kind = "TypeAssertExpr" THEN MultiAssertTarget(v, stmt, k)
      ELSE <<>>

\* The loops "for i := 0; i < len(stmt.Lhs); i++": targets k..Len(Lhs) in order.
RECURSIVE SingleCallLoop(_, _, _)
SingleCallLoop(v, stmt, k) ==
  IF k > Len(stmt.Lhs) THEN <<>>
  ELSE SingleCallTarget(v, stmt, k) \o SingleCallLoop(v, stmt, k + 1)

RECURSIVE MultiLoop(_, _, _)
MultiLoop(v, stmt, k) ==
  IF k > Len(stmt.Lhs) THEN <<>>
  ELSE MultiTarget(v, stmt, k) \o MultiLoop(v, stmt, k + 1)

\* Visit: the errors one call of v.Visit(node) appends to v.errors.
Visit(v, node) ==
  IF node.Kind = "ExprStmt"
    THEN IF node.X.Kind = "CallExpr" THEN VisitCall(v, node.X) ELSE <<>>
  ELSE IF node.Kind \in {"GoStmt", "DeferStmt"} THEN VisitCall(v, node.Call)
  ELSE IF node.Kind = "AssignStmt"
    THEN IF Len(node.Rhs) = 1
           THEN IF node.Rhs[1].Kind = "CallExpr" THEN SingleCallLoop(v, node, 1)
                ELSE IF node.Rhs[1].Kind = "TypeAssertExpr" THEN SingleAssert(v, node)
                ELSE <<>>
           ELSE MultiLoop(v, node, 1)
  ELSE <<>>

\* One visitor per package, built from the Checker's exclusions.
NewVisitor(c, ignore, go111module) ==
  [ blank |-> ~c.BlankAssignments,
    asserts |-> ~c.TypeAssertions,
    exclude |-> c.Symbols,
    ignore |-> ignore,
    go111module |-> go111module ]

\* The ignore map CheckPackages compiles from Exclusions.Packages (its keys;
\* every value is dotStar).
IgnoreMap(c, go111module) ==
  { IF go111module /\ nonVendoredPkgPath(pkg)[2]
      THEN nonVendoredPkgPath(pkg)[1] ELSE pkg : pkg \in c.Packages }

(***************************************************************************)
(* The syntax the model draws its inputs from                              *)
(***************************************************************************)

PathP == <<"p">>
PathVendoredP == <<"a", "vendor", "p">>

\* What a call's target can resolve to.
Target(fun, name, obj, hasPkg, path, full, selection, chain) ==
  [ Fun |-> fun, Name |-> name, Obj |-> obj, HasPkg |-> hasPkg, PkgPath |-> path,
    FullName |-> full, Selection |-> selection, Chain |-> chain ]

\* f()                   a function of the package, through a bare identifier
LocalFunc == Target("Ident", "f", "Func", TRUE, PathP, "p.f", "none", <<>>)
\* recover()             the built-in
BuiltinRecover == Target("Ident", "recover", "Builtin", FALSE, <<>>, "", "none", <<>>)
\* recover()             a function of the package that shadows the built-in
ShadowRecover == Target("Ident", "recover", "Func", TRUE, PathP, "p.recover", "none", <<>>)
\* p.F()                 a package-level function through a selector
PkgFunc == Target("SelectorExpr", "F", "Func", TRUE, PathP, "p.F", "none", <<>>)
\* p.F()                 the same, p resolved to a vendored copy
VendoredFunc ==
  Target("SelectorExpr", "F", "Func", TRUE, PathVendoredP, "a/vendor/p.F", "none", <<>>)
\* t.Close()             a method of a concrete type
ConcreteMethod ==
  Target("SelectorExpr", "Close", "Func", TRUE, PathP, "(p.T).Close", "concrete", <<>>)
\* t.Close()             the same selector, bound to a method promoted from q.E
PromotedMethod ==
  Target("SelectorExpr", "Close", "Func", TRUE, <<"q">>, "(q.E).Close", "concrete", <<>>)
\* rc.Close()            rc of interface type p.RC, which embeds p.C
IfaceMethod ==
  Target("SelectorExpr", "Close", "Func", TRUE, PathP, "(p.C).Close", "iface",
         <<"p.RC", "p.C">>)
\* s.fn()                a field of function type
FuncField == Target("SelectorExpr", "fn", "Var", TRUE, PathP, "", "none", <<>>)
\* fs[0]()               neither an identifier nor a selector
IndexedFunc == Target("Other", "", "None", FALSE, <<>>, "", "none", <<>>)

Targets ==
  { LocalFunc, BuiltinRecover, ShadowRecover, PkgFunc, VendoredFunc, ConcreteMethod,
    IfaceMethod, FuncField, IndexedFunc }

NoArgs == <<>>
StderrArg == << [Sel |-> "Stderr", Type |-> "*os.File"] >>
BufferArg == << [Sel |-> "", Type |-> "*bytes.Buffer"] >>

SingleTypes == {TError, TInt, TPtrErr, TIfaceLit}
TupleTypes ==
  { Tuple(<<>>), Tuple(<<TInt, TError>>), Tuple(<<TInt, TInt>>),
    Tuple(<<TPtrErr, TIfaceLit>>) }

\* The result types a target is drawn with: recover() returns interface{}.
TypesOf(target) ==
  IF target = BuiltinRecover THEN {TEmptyIface}
  ELSE IF target \in {LocalFunc, PkgFunc} THEN SingleTypes \cup TupleTypes
  ELSE {TError, TInt}

ArgsOf(target) ==
  IF target = PkgFunc THEN {NoArgs, StderrArg, BufferArg}
  ELSE IF target = IfaceMethod THEN {NoArgs, BufferArg}
  ELSE {NoArgs}

\* Columns of one statement: the k-th target, the right-hand side, the "(".
LhsColumn(k) == 3 * k - 2
RhsColumn == 10
LparenColumn == 20

CallExpr(target, type, args, file, line) ==
  [ Kind |-> "CallExpr", Fun |-> target.Fun, Name |-> target.Name, Obj |-> target.Obj,
    HasPkg |-> target.HasPkg, PkgPath |-> target.PkgPath, FullName |-> target.FullName,
    Selection |-> target.Selection, Chain |-> target.Chain, Args |-> args,
    Type |-> type, Lparen |-> Position(file, line, LparenColumn) ]

TypeAssertExpr(hasType, file, line) ==
  [ Kind |-> "TypeAssertExpr", HasType |-> hasType,
    Pos |-> Position(file, line, RhsColumn) ]

OtherExpr == [Kind |-> "Other"]

CallsAt(file, line) ==
  { CallExpr(t[1], t[2], t[3], file, line) :
      t \in { u \in Targets \X (SingleTypes \cup TupleTypes \cup {TEmptyIface})
                    \X {NoArgs, StderrArg, BufferArg} :
                u[2] \in TypesOf(u[1]) /\ u[3] \in ArgsOf(u[1]) } }

Arity(call) == IF call.Type.Kind = "Tuple" THEN Len(call.Type.Elems) ELSE 1

\* Left-hand sides: the blank identifier, a named identifier, x[0].
Blank(file, line, k) ==
  [IsIdent |-> TRUE, Name |-> "_", NamePos |-> Position(file, line, LhsColumn(k))]
Named(file, line, k) ==
  [IsIdent |-> TRUE, Name |-> "v", NamePos |-> Position(file, line, LhsColumn(k))]
Indexed(file, line, k) ==
  [IsIdent |-> FALSE, Name |-> "", NamePos |-> Position(file, line, LhsColumn(k))]

LhsAt(file, line, k) == {Blank(file, line, k), Named(file, line, k), Indexed(file, line, k)}

\* Statements wrapping a call: f(), go f(), defer f().
CallStmtsAt(file, line) ==
  { [Kind |-> "ExprStmt", X |-> call] : call \in CallsAt(file, line) }
  \cup { [Kind |-> kind, Call |-> call] :
           kind \in {"GoStmt", "DeferStmt"}, call \in CallsAt(file, line) }

\* Assignments with one right-hand side that is a call: as many targets as
\* the call has results.
SingleCallAssignsAt(file, line) ==
  { [Kind |-> "AssignStmt", Lhs |-> <<l>>, Rhs |-> <<call>>] :
      l \in LhsAt(file, line, 1),
      call \in {x \in CallsAt(file, line) : Arity(x) = 1} }
  \cup { [Kind |-> "AssignStmt", Lhs |-> <<l1, l2>>, Rhs |-> <<call>>] :
           l1 \in LhsAt(file, line, 1), l2 \in LhsAt(file, line, 2),
           call \in {x \in CallsAt(file, line) : Arity(x) = 2} }

\* Assignments with one right-hand side that is a type assertion (or the
\* header of a type switch, HasType = FALSE), with one or two targets.
SingleAssertAssignsAt(file, line) ==
  { [Kind |-> "AssignStmt", Lhs |-> <<l>>,
     Rhs |-> <<TypeAssertExpr(h, file, line)>>] :
      l \in LhsAt(file, line, 1), h \in BOOLEAN }
  \cup { [Kind |-> "AssignStmt", Lhs |-> <<Named(file, line, 1), l2>>,
          Rhs |-> <<TypeAssertExpr(TRUE, file, line)>>] :
           l2 \in LhsAt(file, line, 2) }

\* The right-hand terms of an assignment with one expression per target.
MultiTermsAt(file, line) ==
  { CallExpr(t, ty, NoArgs, file, line) :
      t \in {LocalFunc, PkgFunc}, ty \in {TError, TInt} }
  \cup {CallExpr(BuiltinRecover, TEmptyIface, NoArgs, file, line)}
  \cup {TypeAssertExpr(h, file, line) : h \in BOOLEAN}
  \cup {OtherExpr}

MultiAssignsAt(file, line) ==
  { [Kind |-> "AssignStmt", Lhs |-> <<l1, l2>>, Rhs |-> <<r1, r2>>] :
      l1 \in LhsAt(file, line, 1), l2 \in LhsAt(file, line, 2),
      r1 \in MultiTermsAt(file, line), r2 \in MultiTermsAt(file, line) }

OtherNode == [Kind |-> "Other"]

NodesAt(file, line) ==
  CallStmtsAt(file, line) \cup SingleCallAssignsAt(file, line)
  \cup SingleAssertAssignsAt(file, line) \cup MultiAssignsAt(file, line)
  \cup {[Kind |-> "ExprStmt", X |-> OtherExpr], OtherNode}

\* The nodes the visitor is checked on.
Nodes == NodesAt(FileA, 2)

\* The symbol names an exclusion list is drawn from.
SymbolNames ==
  { "p.F", "p.F(os.Stderr)", "(p.C).Close", "(p.RC).Close", "(p.RC).Close(*bytes.Buffer)",
    "(p.T).Close", "p.f" }

\* The package patterns an exclusion list is drawn from.
PackageNames == {PathP, PathVendoredP, <<>>}

(***************************************************************************)
(* Result aggregation: byName, sort.Sort and the in-place dedup            *)
(***************************************************************************)

\* byName.Less on two UncheckedErrors.
Less(ei, ej) ==
  IF ei.Pos.Filename # ej.Pos.Filename
    THEN StrLess(ei.Pos.Filename, ej.Pos.Filename)
  ELSE IF ei.Pos.Line # ej.Pos.Line THEN ei.Pos.Line < ej.Pos.Line
  ELSE IF ei.Pos.Column # ej.Pos.Column THEN ei.Pos.Column < ej.Pos.Column
  ELSE StrLess(ei.Line, ej.Line)

\* UncheckedErrors.Swap
Swap(errs, i, j) == [errs EXCEPT ![i] = errs[j], ![j] = errs[i]]

\* sort.Sort on fewer than 12 elements is an insertion sort: element i sinks
\* while it is Less than its left neighbour.
RECURSIVE Sink(_, _)
Sink(errs, j) ==
  IF j > 1 /\ Less(errs[j], errs[j - 1]) THEN Sink(Swap(errs, j, j - 1), j - 1)
  ELSE errs

RECURSIVE InsertionSort(_, _)
InsertionSort(errs, i) ==
  IF i > Len(errs) THEN errs ELSE InsertionSort(Sink(errs, i), i + 1)

Sort(errs) == InsertionSort(errs, 2)

\* The dedup loop, compacting in place: arr is the backing array that
\* u.Errors and uniq share, n the length of uniq, i the index of the range.
RECURSIVE Compact(_, _, _)
Compact(arr, n, i) ==
  IF i > Len(arr) THEN SubSeq(arr, 1, n)
  ELSE IF i = 1 \/ arr[i] # arr[i - 1]
    THEN Compact([arr EXCEPT ![n + 1] = arr[i]], n + 1, i + 1)
  ELSE Compact(arr, n, i + 1)

UniqKeepsAll(errs) == errs

Uniq(errs) == Compact(errs, 0, 1)

(***************************************************************************)
(* Packages                                                                *)
(*                                                                         *)
(* A loaded package is [Errors, Syntax]: its load diagnostics and its      *)
(* files; a file is [Generated, Nodes]: whether a comment of the file      *)
(* matches generatedCodeRegexp, and the nodes ast.Walk passes to Visit.    *)
(***************************************************************************)

\* shouldSkipFile
shouldSkipFile(c, file) == c.GeneratedFiles /\ file.Generated

RECURSIVE WalkNodes(_, _)
WalkNodes(v, nodes) ==
  IF nodes = <<>> THEN <<>> ELSE Visit(v, Head(nodes)) \o WalkNodes(v, Tail(nodes))

\* The loop over v.pkg.Syntax: v.errors when the package has been walked.
RECURSIVE WalkFiles(_, _, _)
WalkFiles(c, v, files) ==
  IF files = <<>> THEN <<>>
  ELSE (IF shouldSkipFile(c, Head(files)) THEN <<>> ELSE WalkNodes(v, Head(files).Nodes))
       \o WalkFiles(c, v, Tail(files))

\* len(pkg.Errors) > 0
HasLoadErrorsNever(pkg) == FALSE

HasLoadErrors(pkg) == Len(pkg.Errors) > 0

\* The two physical files of the tree hold one call statement each, t.Close();
\* the package that compiles the file decides what the selector is bound to.
Bindings == {ConcreteMethod, PromotedMethod}

SourceFile(name, target) ==
  [ Generated |-> FALSE,
    Nodes |-> << [Kind |-> "ExprStmt", X |-> CallExpr(target, TError, NoArgs, name, 1)] >> ]

SyntaxLists ==
  { <<>> }
  \cup { <<SourceFile(f, t)>> : f \in Filenames, t \in Bindings }
  \cup { <<SourceFile(FileA, ConcreteMethod), SourceFile(FileB, ConcreteMethod)>> }

Packages ==
  { [Errors |-> <<>>, Syntax |-> s] : s \in SyntaxLists }
  \cup { [Errors |-> <<"diagnostic">>, Syntax |-> <<>>] }

(***************************************************************************)
(* State                                                                   *)
(***************************************************************************)

\* The most packages the frontend loads, and runtime.NumCPU().
MaxPkgs == 3
MaxCPU == 2

VARIABLES
  c,            \* Checker.Exclusions
  go111module,  \* whether `go env GOMOD` names a module file
  tree,         \* the packages that packages.Load finds for the paths
  loadFails,    \* whether packages.Load itself returns an error
  numCPU,       \* runtime.NumCPU()
  pkgs,         \* CheckPackages: the loaded packages
  pc,           \* CheckPackages: where the calling goroutine is
  idx,          \* CheckPackages: the index of the running loop
  work,         \* the work channel's buffer (indices into pkgs)
  closed,       \* whether the work channel is closed
  wpc,          \* where each worker goroutine is
  wpkg,         \* the package a worker has received (0: none)
  werrors,      \* v.errors of the worker's visitor
  wread,        \* e.Errors as a worker's Append has read it
  mu,           \* UncheckedErrors.mu: the worker holding it (0: unlocked)
  wg,           \* the WaitGroup's counter
  uErrors,      \* u.Errors
  result,       \* what CheckPackages returns
  visits,       \* how often each package has been received and walked
  prev,         \* the outcome of the previous scan of the same tree
  vnode,        \* visitor run: the node passed to Visit
  vstate,       \* visitor run: "ready", "visited", or "off"
  verrors,      \* visitor run: v.errors
  vbase,        \* visitor run: v.errors before a symbol was excluded
  vadded        \* visitor run: the symbol added to the exclusions ("": none)

scanVars ==
  << tree, loadFails, numCPU, pkgs, pc, idx, work, closed, wpc, wpkg, werrors, wread,
     mu, wg, uErrors, result, visits, prev >>
visitVars == << vnode, vstate, verrors, vbase, vadded >>
vars == << c, go111module, scanVars, visitVars >>

Workers == 1..numCPU

NoPrev == [result |-> "none", Errors |-> <<>>]

\* Checker{}: nothing excluded.
DefaultExclusions ==
  [ Packages |-> {}, Symbols |-> {}, TestFiles |-> FALSE, GeneratedFiles |-> FALSE,
    BlankAssignments |-> FALSE, TypeAssertions |-> FALSE ]

\* The visitor a worker builds for a package, and what its walk leaves in
\* v.errors.
WalkPkg(pkg) ==
  WalkFiles(c, NewVisitor(c, IgnoreMap(c, go111module), go111module), pkg.Syntax)

PkgLists == UNION { [1..n -> Packages] : n \in 0..MaxPkgs }

\* The state of CheckPackages when it is called.
ScanStart ==
  /\ pkgs = <<>>
  /\ pc = "load"
  /\ idx = 0
  /\ work = <<>>
  /\ closed = FALSE
  /\ wpc = [w \in Workers |-> "unstarted"]
  /\ wpkg = [w \in Workers |-> 0]
  /\ werrors = [w \in Workers |-> <<>>]
  /\ wread = [w \in Workers |-> <<>>]
  /\ mu = 0
  /\ wg = 0
  /\ uErrors = <<>>
  /\ result = "none"
  /\ visits = [k \in 1..Len(tree) |-> 0]

VisitOff ==
  /\ vnode = OtherNode
  /\ vstate = "off"
  /\ verrors = <<>>
  /\ vbase = <<>>
  /\ vadded = ""

Init ==
  /\ c = DefaultExclusions
  /\ go111module = TRUE
  /\ tree \in PkgLists
  /\ loadFails \in BOOLEAN
  /\ numCPU \in 1..MaxCPU
  /\ ScanStart
  /\ prev = NoPrev
  /\ VisitOff

(***************************************************************************)
(* Checker.CheckPackages: the calling goroutine                            *)
(***************************************************************************)

\* pkgs, err := c.load(paths...); work := make(chan ...)
Load ==
  /\ pc = "load"
  /\ IF loadFails
       THEN /\ result' = "load_error"
            /\ pc' = "done"
            /\ UNCHANGED pkgs
       ELSE /\ pkgs' = tree
            /\ pc' = "enqueue"
            /\ UNCHANGED result
  /\ UNCHANGED << c, go111module, tree, loadFails, numCPU, idx, work, closed, wpc, wpkg,
                  werrors, wread, mu, wg, uErrors, visits, prev, visitVars >>

\* One iteration of "for _, pkg := range pkgs".
Enqueue ==
  /\ pc = "enqueue"
  /\ idx < Len(pkgs)
  /\ IF HasLoadErrors(pkgs[idx + 1])
       THEN /\ result' = "load_error"
            /\ pc' = "done"
            /\ UNCHANGED << work, idx >>
       ELSE /\ work' = Append(work, idx + 1)
            /\ idx' = idx + 1
            /\ UNCHANGED << result, pc >>
  /\ UNCHANGED << c, go111module, tree, loadFails, numCPU, pkgs, closed, wpc, wpkg,
                  werrors, wread, mu, wg, uErrors, visits, prev, visitVars >>

\* close(work), then the GOMOD probe and the exclusion maps, which are
\* local to the call.
CloseWork ==
  /\ pc = "enqueue"
  /\ idx = Len(pkgs)
  /\ closed' = TRUE
  /\ pc' = "spawn"
  /\ idx' = 0
  /\ UNCHANGED << c, go111module, tree, loadFails, numCPU, pkgs, work, wpc, wpkg,
                  werrors, wread, mu, wg, uErrors, result, visits, prev, visitVars >>

\* One iteration of "for i := 0; i < runtime.NumCPU(); i++": wg.Add(1); go.
Spawn ==
  /\ pc = "spawn"
  /\ idx < numCPU
  /\ wg' = wg + 1
  /\ wpc' = [wpc EXCEPT ![idx + 1] = "recv"]
  /\ idx' = idx + 1
  /\ UNCHANGED << c, go111module, tree, loadFails, numCPU, pkgs, pc, work, closed, wpkg,
                  werrors, wread, mu, uErrors, result, visits, prev, visitVars >>

\* wg.Wait() returns.
WaitGroupDone(n) == n = 0

Wait ==
  /\ pc = "spawn"
  /\ idx = numCPU
  /\ WaitGroupDone(wg)
  /\ pc' = "finalize"
  /\ UNCHANGED << c, go111module, tree, loadFails, numCPU, pkgs, idx, work, closed, wpc,
                  wpkg, werrors, wread, mu, wg, uErrors, result, visits, prev, visitVars >>

\* if u.Len() > 0 { sort, dedup, return u }; return nil
Finalize ==
  /\ pc = "finalize"
  /\ IF Len(uErrors) > 0
       THEN /\ uErrors' = Uniq(Sort(uErrors))
            /\ result' = "unchecked_errors"
       ELSE /\ result' = "nil"
            /\ UNCHANGED uErrors
  /\ pc' = "done"
  /\ UNCHANGED << c, go111module, tree, loadFails, numCPU, pkgs, idx, work, closed, wpc,
                  wpkg, werrors, wread, mu, wg, visits, prev, visitVars >>

(***************************************************************************)
(* Checker.CheckPackages: the worker goroutines                            *)
(***************************************************************************)

\* "for pkg := range work" receives a package; the worker builds a visitor
\* and walks the package's files.
Receive(w) ==
  /\ wpc[w] = "recv"
  /\ work # <<>>
  /\ work' = Tail(work)
  /\ wpkg' = [wpkg EXCEPT ![w] = Head(work)]
  /\ werrors' = [werrors EXCEPT ![w] = WalkPkg(pkgs[Head(work)])]
  /\ visits' = [visits EXCEPT ![Head(work)] = @ + 1]
  /\ wpc' = [wpc EXCEPT ![w] = "append"]
  /\ UNCHANGED << c, go111module, tree, loadFails, numCPU, pkgs, pc, idx, closed, wread,
                  mu, wg, uErrors, result, prev, visitVars >>

\* u.Append: e.mu.Lock(), then the read of e.Errors.
MutexFreeAlways(m) == TRUE

MutexFree(m) == m = 0

Lock(w) ==
  /\ wpc[w] = "append"
  /\ MutexFree(mu)
  /\ mu' = w
  /\ wread' = [wread EXCEPT ![w] = uErrors]
  /\ wpc' = [wpc EXCEPT ![w] = "locked"]
  /\ UNCHANGED << c, go111module, tree, loadFails, numCPU, pkgs, pc, idx, work, closed,
                  wpkg, werrors, wg, uErrors, result, visits, prev, visitVars >>

\* u.Append: e.Errors = append(e.Errors, errors...), then the deferred
\* e.mu.Unlock(); the worker is back at the head of its loop.
AppendErrors(w) ==
  /\ wpc[w] = "locked"
  /\ uErrors' = wread[w] \o werrors[w]
  /\ mu' = 0
  /\ wpkg' = [wpkg EXCEPT ![w] = 0]
  /\ werrors' = [werrors EXCEPT ![w] = <<>>]
  /\ wread' = [wread EXCEPT ![w] = <<>>]
  /\ wpc' = [wpc EXCEPT ![w] = "recv"]
  /\ UNCHANGED << c, go111module, tree, loadFails, numCPU, pkgs, pc, idx, work, closed,
                  wg, result, visits, prev, visitVars >>

\* The range over the closed, drained channel ends; the deferred wg.Done().
Exit(w) ==
  /\ wpc[w] = "recv"
  /\ work = <<>>
  /\ closed
  /\ wpc' = [wpc EXCEPT ![w] = "exited"]
  /\ wg' = wg - 1
  /\ UNCHANGED << c, go111module, tree, loadFails, numCPU, pkgs, pc, idx, work, closed,
                  wpkg, werrors, wread, mu, uErrors, result, visits, prev, visitVars >>

WorkerReceive == \E w \in Workers : Receive(w)
WorkerLock == \E w \in Workers : Lock(w)
WorkerAppend == \E w \in Workers : AppendErrors(w)
WorkerExit == \E w \in Workers : Exit(w)

Next ==
  \/ Load
  \/ Enqueue
  \/ CloseWork
  \/ Spawn
  \/ Wait
  \/ Finalize
  \/ WorkerReceive
  \/ WorkerLock
  \/ WorkerAppend
  \/ WorkerExit

Spec == Init /\ [][Next]_vars

(***************************************************************************)
(* A second scan of the same tree with the same Checker                    *)
(***************************************************************************)

Rescan ==
  /\ pc = "done"
  /\ prev = NoPrev
  /\ prev' = [result |-> result, Errors |-> uErrors]
  /\ pkgs' = <<>>
  /\ pc' = "load"
  /\ idx' = 0
  /\ work' = <<>>
  /\ closed' = FALSE
  /\ wpc' = [w \in Workers |-> "unstarted"]
  /\ wpkg' = [w \in Workers |-> 0]
  /\ werrors' = [w \in Workers |-> <<>>]
  /\ wread' = [w \in Workers |-> <<>>]
  /\ mu' = 0
  /\ wg' = 0
  /\ uErrors' = <<>>
  /\ result' = "none"
  /\ visits' = [k \in 1..Len(tree) |-> 0]
  /\ UNCHANGED << c, go111module, tree, loadFails, numCPU, visitVars >>

NextTwice == Next \/ Rescan

SpecTwice == Init /\ [][NextTwice]_vars

(***************************************************************************)
(* The detection visitor on one node                                       *)
(***************************************************************************)

ExclusionSettings ==
  { [ Packages |-> ps, Symbols |-> ss, TestFiles |-> FALSE, GeneratedFiles |-> FALSE,
      BlankAssignments |-> b, TypeAssertions |-> t ] :
      ps \in {{}} \cup {{x} : x \in PackageNames},
      ss \in {{}, {"p.F(*bytes.Buffer)"}},
      b \in BOOLEAN, t \in BOOLEAN }

ScanOff ==
  /\ tree = <<>>
  /\ loadFails = FALSE
  /\ numCPU = 1
  /\ pkgs = <<>>
  /\ pc = "off"
  /\ idx = 0
  /\ work = <<>>
  /\ closed = FALSE
  /\ wpc = [w \in 1..1 |-> "unstarted"]
  /\ wpkg = [w \in 1..1 |-> 0]
  /\ werrors = [w \in 1..1 |-> <<>>]
  /\ wread = [w \in 1..1 |-> <<>>]
  /\ mu = 0
  /\ wg = 0
  /\ uErrors = <<>>
  /\ result = "none"
  /\ visits = <<>>
  /\ prev = NoPrev

InitVisit ==
  /\ c \in ExclusionSettings
  /\ go111module \in BOOLEAN
  /\ ScanOff
  /\ vnode \in Nodes
  /\ vstate = "ready"
  /\ verrors = <<>>
  /\ vbase = <<>>
  /\ vadded = ""

\* The visitor of the current settings.
V == NewVisitor(c, IgnoreMap(c, go111module), go111module)

\* ast.Walk calls v.Visit(node).
VisitNode ==
  /\ vstate = "ready"
  /\ verrors' = verrors \o Visit(V, vnode)
  /\ vstate' = "visited"
  /\ UNCHANGED << c, go111module, scanVars, vnode, vbase, vadded >>

\* The caller adds a symbol to Exclusions.Symbols and checks the same node
\* again with a new visitor.
ExcludeSymbol ==
  /\ vstate = "visited"
  /\ vadded = ""
  /\ \E n \in SymbolNames :
       /\ c' = [c EXCEPT !.Symbols = @ \cup {n}]
       /\ vadded' = n
  /\ vbase' = verrors
  /\ verrors' = <<>>
  /\ vstate' = "ready"
  /\ UNCHANGED << go111module, scanVars, vnode >>

NextVisit == VisitNode \/ ExcludeSymbol

SpecVisit == InitVisit /\ [][NextVisit]_vars

(***************************************************************************)
(* Properties of the scan                                                  *)
(***************************************************************************)

Range(s) == {s[k] : k \in 1..Len(s)}

Count(s, e) == Cardinality({k \in 1..Len(s) : s[k] = e})

SameBag(a, b) ==
  /\ Len(a) = Len(b)
  /\ \A e \in Range(a) \cup Range(b) : Count(a, e) = Count(b, e)

\* The findings of the loaded packages 1..n, package after package.
RECURSIVE FindingsUpTo(_)
FindingsUpTo(n) == IF n = 0 THEN <<>> ELSE FindingsUpTo(n - 1) \o WalkPkg(pkgs[n])

AllFindings == FindingsUpTo(Len(pkgs))

\* The load is faulty: it fails, or a package it returns has a diagnostic.
LoadFault == loadFails \/ \E k \in 1..Len(tree) : tree[k].Errors # <<>>

\* C1: when the load fails or any loaded package carries a load diagnostic,
\* wherever it stands in the list, the scan never starts a worker, never
\* walks a package and never records an issue, and what it returns is the
\* load error.
LoadFaultAbortsScan ==
  LoadFault =>
    /\ \A w \in Workers : wpc[w] = "unstarted"
    /\ \A k \in 1..Len(tree) : visits[k] = 0
    /\ uErrors = <<>>
    /\ pc \notin {"spawn", "finalize"}
    /\ pc = "done" => result = "load_error"

\* C1 witness: the scan has returned the load error of a package that is
\* not the first; the packages before it are on the work queue.
LoadFaultAfterEnqueue ==
  /\ pc = "done"
  /\ result = "load_error"
  /\ ~loadFails
  /\ Len(work) = 2
  /\ tree[3].Errors # <<>>

\* C2: when the caller starts the finalization every worker has finished,
\* every loaded package has been received and walked exactly once, and
\* u.Errors holds exactly the findings of all packages, as a multiset.
AllMergedAtFinalize ==
  pc = "finalize" =>
    /\ \A w \in Workers : wpc[w] = "exited"
    /\ work = <<>>
    /\ mu = 0
    /\ \A k \in 1..Len(pkgs) : visits[k] = 1
    /\ SameBag(uErrors, AllFindings)

\* C2 witness: finalization starts after two workers shared three packages
\* with findings.
ThreePackagesTwoWorkersMerged ==
  /\ pc = "finalize"
  /\ numCPU = 2
  /\ Len(pkgs) = 3
  /\ \A k \in 1..3 : WalkPkg(pkgs[k]) # <<>>
  /\ Len(uErrors) >= 3

\* C3 (as claimed): a second scan of the same tree with the same settings
\* returns the same result with the same issues in the same order.
ScansAgree ==
  (pc = "done" /\ prev # NoPrev) =>
    /\ result = prev.result
    /\ uErrors = prev.Errors

\* (file, line, column, text) of an issue.
Key(e) == <<e.Pos.Filename, e.Pos.Line, e.Pos.Column, e.Line>>

\* C4 (as claimed): no two entries of the returned issues are equal in
\* (file, line, column, text).
NoTwoEntriesShareKey ==
  (pc = "done" /\ result = "unchecked_errors") =>
    \A i, j \in 1..Len(uErrors) : i # j => Key(uErrors[i]) # Key(uErrors[j])

\* The findings on one line of one file.
OnLine(s, file, line) ==
  {k \in 1..Len(s) : s[k].Pos.Filename = file /\ s[k].Pos.Line = line}

\* Two or more loaded packages compile the file and find the same single
\* issue on the line.
SharedOffendingLine(file, line) ==
  /\ Cardinality({AllFindings[k] : k \in OnLine(AllFindings, file, line)}) = 1
  /\ Cardinality({k \in 1..Len(pkgs) : OnLine(WalkPkg(pkgs[k]), file, line) # {}}) >= 2

NoSources ==
  /\ ~loadFails
  /\ \A k \in 1..Len(tree) : tree[k].Syntax = <<>> /\ tree[k].Errors = <<>>

\* C6 (as claimed): a scan of a path without source files returns
\* ErrNoGoFiles, never nil.
NoSourcesYieldsErrNoGoFiles ==
  (pc = "done" /\ NoSources) => result = "ErrNoGoFiles"

(***************************************************************************)
(* Properties of the detection visitor                                     *)
(***************************************************************************)

IsMultiAssign(node) == node.Kind = "AssignStmt" /\ Len(node.Rhs) > 1
IsSingleAssign(node) == node.Kind = "AssignStmt" /\ Len(node.Rhs) = 1

\* The calls a node holds in the places Visit looks at.
NodeCalls(node) ==
  IF node.Kind = "ExprStmt"
    THEN IF node.X.Kind = "CallExpr" THEN {node.X} ELSE {}
  ELSE IF node.Kind \in {"GoStmt", "DeferStmt"} THEN {node.Call}
  ELSE IF node.Kind = "AssignStmt"
    THEN {node.Rhs[k] : k \in {m \in 1..Len(node.Rhs) : node.Rhs[m].Kind = "CallExpr"}}
  ELSE {}

\* The positions at which an issue for the call can be recorded.
PositionsFor(node, call) ==
  IF node.Kind \in {"ExprStmt", "GoStmt", "DeferStmt"} THEN {call.Lparen}
  ELSE IF IsSingleAssign(node) THEN {node.Lhs[k].NamePos : k \in 1..Len(node.Lhs)}
  ELSE {node.Lhs[k].NamePos : k \in {m \in 1..Len(node.Lhs) : node.Rhs[m] = call}}

\* The call an issue of the node was recorded for; NoCall for the issue of
\* a type assertion.
CallOf(node, e) ==
  IF node.Kind = "ExprStmt" THEN node.X
  ELSE IF node.Kind \in {"GoStmt", "DeferStmt"} THEN node.Call
  ELSE IF IsSingleAssign(node)
    THEN IF node.Rhs[1].Kind = "CallExpr" THEN node.Rhs[1] ELSE NoCall
  ELSE LET k == CHOOSE m \in 1..Len(node.Lhs) : node.Lhs[m].NamePos = e.Pos
       IN  IF node.Rhs[k].Kind = "CallExpr" THEN node.Rhs[k] ELSE NoCall

IssueAt(pos) == \E k \in 1..Len(verrors) : verrors[k].Pos = pos

\* The textual type of the call's first argument, in parentheses.
ArgSuffix(call) ==
  IF call.Args = <<>> THEN ""
  ELSE IF call.Args[1].Sel # "" THEN "(os." \o call.Args[1].Sel \o ")"
  ELSE "(" \o call.Args[1].Type \o ")"

\* The issue's recorded name, alone or followed by the argument suffix, is n.
RecordedNameIs(e, n) ==
  \/ e.FuncName = n
  \/ /\ CallOf(vnode, e) # NoCall
     /\ ArgSuffix(CallOf(vnode, e)) # ""
     /\ e.FuncName \o ArgSuffix(CallOf(vnode, e)) = n

KeptByRecordedName(e) == ~RecordedNameIs(e, vadded)

\* C7 (as claimed): adding n to the symbol exclusions removes exactly the
\* issues whose recorded name, with or without the suffix of the first
\* argument's type, equals n.
ExcludeRemovesByRecordedName ==
  (vstate = "visited" /\ vadded # "") =>
    verrors = SelectSeq(vbase, KeptByRecordedName)

\* The names a symbol rule is compared with: the full name of the function
\* or method a selector is bound to or, for a method bound through an
\* interface, "(I).Method" for each interface I of the embedding chain.
RuleNames(call) ==
  IF call = NoCall THEN {}
  ELSE IF call.Fun # "SelectorExpr" \/ call.Obj # "Func" THEN {}
  ELSE IF call.Selection = "iface"
    THEN {"(" \o call.Chain[k] \o ")." \o call.Name : k \in 1..Len(call.Chain)}
  ELSE {call.FullName}

RuleMatches(call, n) ==
  \E name \in RuleNames(call) :
     \/ name = n
     \/ ArgSuffix(call) # "" /\ name \o ArgSuffix(call) = n

KeptByRule(e) == ~RuleMatches(CallOf(vnode, e), vadded)

\* C7 (amended): adding n to the symbol exclusions removes exactly the
\* issues of calls one of whose rule names, with or without the suffix of
\* the first argument's type, equals n; issues of calls through a bare
\* identifier and of type assertions are never removed.
ExcludeRemovesByRuleNames ==
  (vstate = "visited" /\ vadded # "") =>
    verrors = SelectSeq(vbase, KeptByRule)

\* C7 witness: excluding "(p.RC).Close" removed the issue of rc.Close(),
\* which is recorded under the name "(p.C).Close".
InterfaceRuleRemovedIssue ==
  /\ vstate = "visited"
  /\ vadded = "(p.RC).Close"
  /\ Len(vbase) = 1
  /\ vbase[1].FuncName = "(p.C).Close"
  /\ verrors = <<>>

\* A result type is error-capable when it, or one slot of the tuple,
\* satisfies the error contract.
ErrorCapable(t) ==
  IF t.Kind = "Tuple" THEN \E k \in 1..Len(t.Elems) : t.Elems[k].Implements
  ELSE t.Implements

\* C8 (as claimed): a call whose result types are all not error-capable
\* gets no issue, the built-in recover included.
NoErrorResultNoIssue ==
  vstate = "visited" =>
    \A call \in NodeCalls(vnode) :
      ~ErrorCapable(call.Type) =>
        \A pos \in PositionsFor(vnode, call) : ~IssueAt(pos)

BuiltinRecoverCall(call) ==
  call.Fun = "Ident" /\ call.Obj = "Builtin" /\ call.Name = "recover"

\* C8 (amended): a call other than a call of the built-in recover whose
\* result types are all not error-capable gets no issue, in every statement
\* shape and under every setting; a call of the built-in recover that no
\* rule excludes gets an issue as an expression, go or defer statement.
NoErrorResultNoIssueButRecover ==
  vstate = "visited" =>
    \A call \in NodeCalls(vnode) :
      /\ (~ErrorCapable(call.Type) /\ ~BuiltinRecoverCall(call)) =>
            \A pos \in PositionsFor(vnode, call) : ~IssueAt(pos)
      /\ ( /\ vnode.Kind \in {"ExprStmt", "GoStmt", "DeferStmt"}
           /\ BuiltinRecoverCall(call)
           /\ ~ignoreCall(V, call) ) => IssueAt(call.Lparen)

\* C8 witness: p.F(), returning an int and excluded by no rule, was visited
\* as an expression statement and left no issue.
IntCallVisitedClean ==
  /\ vstate = "visited"
  /\ vnode = [Kind |-> "ExprStmt", X |-> CallExpr(PkgFunc, TInt, NoArgs, FileA, 2)]
  /\ c.Symbols = {}
  /\ c.Packages = {}
  /\ verrors = <<>>

\* v, _ := f() with f() (T, error).
IsValueBlankOfErrorCall(node) ==
  /\ IsSingleAssign(node)
  /\ node.Rhs[1].Kind = "CallExpr"
  /\ node.Rhs[1].Type.Kind = "Tuple"
  /\ Len(node.Rhs[1].Type.Elems) = 2
  /\ node.Rhs[1].Type.Elems[2] = TError
  /\ Len(node.Lhs) = 2
  /\ node.Lhs[1].IsIdent /\ node.Lhs[1].Name # "_"
  /\ node.Lhs[2].IsIdent /\ node.Lhs[2].Name = "_"

\* The name an issue of the call carries: the full name of the function a
\* selector is bound to, empty for a call that is not such a selector.
LabelOf(call) ==
  IF call.Fun = "SelectorExpr" /\ call.Obj = "Func" THEN call.FullName ELSE ""

AssertTargets(node) ==
  { k \in 1..Len(node.Lhs) :
      /\ node.Lhs[k].IsIdent
      /\ node.Rhs[k].Kind = "TypeAssertExpr"
      /\ node.Rhs[k].HasType }

\* C10 (as claimed): in an assignment with several right-hand sides a type
\* assertion always yields an issue, whatever the type-assertion setting.
MultiAssertAlwaysReported ==
  (vstate = "visited" /\ IsMultiAssign(vnode)) =>
    \A k \in AssertTargets(vnode) : IssueAt(vnode.Lhs[k].NamePos)

\* C10 (amended): in an assignment with several right-hand sides a type
\* assertion assigned to an identifier yields an issue, without a name,
\* exactly when type assertions are checked, whatever the blank setting
\* and whether or not the identifier is blank; with one right-hand side a
\* type assertion yields no issue when they are not checked.
MultiAssertReportedIffChecked ==
  vstate = "visited" =>
    /\ IsMultiAssign(vnode) =>
         \A k \in AssertTargets(vnode) :
            /\ IssueAt(vnode.Lhs[k].NamePos) <=> ~c.TypeAssertions
            /\ \A m \in 1..Len(verrors) :
                 verrors[m].Pos = vnode.Lhs[k].NamePos => verrors[m].FuncName = ""
    /\ (IsSingleAssign(vnode) /\ vnode.Rhs[1].Kind = "TypeAssertExpr" /\ c.TypeAssertions) =>
         verrors = <<>>

\* C10 witness: v, w = x.(T), y was visited with type assertions checked and
\* blank assignments not checked; the assertion has its issue.
MultiAssertHasIssue ==
  /\ vstate = "visited"
  /\ IsMultiAssign(vnode)
  /\ 1 \in AssertTargets(vnode)
  /\ vnode.Lhs[1].Name # "_"
  /\ ~c.TypeAssertions
  /\ c.BlankAssignments
  /\ IssueAt(vnode.Lhs[1].NamePos)

====
